---- MODULE Spec2Model ----
(***************************************************************************)
(* Paper-trading ledger of the EGX100 bot (src/paper_trading.py) and the   *)
(* threads that call it (src/app.py).                                      *)
(*                                                                         *)
(* Money and prices are integers counted in thousandths of a pound, so     *)
(* that round(x, 2) is a real conversion (to a multiple of 10).  Trade     *)
(* objects live in a heap, one cell per call: self.trades is a list of     *)
(* references, self.open_trades maps a ticker to a reference (0 = key      *)
(* absent), and a thread's local variable `trade` is a reference too.      *)
(* Every method is a sequence of steps, one per access to shared state.    *)
(* Three threads call the ledger: "request", a Flask request handler       *)
(* (open, close, reset, display reads, with the values of the request      *)
(* body), "worker", a background thread (the AutoTrader's open_trade with  *)
(* the values of a signal, and in Spec and SeqSpec also the PriceUpdater's *)
(* update_trade_price with a provider price), and "updater", the           *)
(* PriceUpdater as a thread of its own where it runs next to the rescan    *)
(* cycle.  Spec interleaves the steps of the calls; SeqSpec runs one call  *)
(* at a time, RestartSpec adds restarts of the process between calls.      *)
(* ScanSpec scores one frame.  CycleSpec, OptionsSpec, ResetSpec and       *)
(* CooldownSpec run the rescan cycle of worker_auto_trade next to changes  *)
(* of the settings, a reset, and the price updates; DisplaySpec adds a     *)
(* display read; TaskSpec runs both periodic tasks with their failures.    *)
(* A behaviour holds at most MaxCalls calls.  The pass-through fields of a *)
(* trade (company_name, arabic_name, signal_confidence, reasons) are never *)
(* read by the ledger and are left out of the record.                      *)
(***************************************************************************)
EXTENDS Integers, Sequences, FiniteSets, TLC

\* ---------------------------------------------------------------- bounds
MaxCalls == 3

\* ------------------------------------------------------------- constants
EGP(x) == x * 1000
DefaultCapital == EGP(100000)
default_trade_amount == EGP(1000)
None == -1

stop_loss_percent == 5
take_profit_percent == 10

Threads == {"request", "worker", "updater"}
Cells == 1..MaxCalls
Tickers == {"X", "Y"}
\* What a request body may carry; `rich` is FALSE where threads interleave,
\* and the data is then kept to the values a signal would give, and TRUE
\* where calls run one at a time.  A rich entry price need not be a whole
\* number of cents; the worker's always is.
Directions == {"BUY", "SELL"}
EntryPrices(rich) == IF rich THEN {EGP(10), EGP(10) + 4} ELSE {EGP(10)}
\* <<stop_loss, take_profit>>.  The body is not validated: a rich BUY may
\* carry its stops the wrong way round, a rich SELL a take-profit above the
\* entry price.
StopPairs(rich, d) ==
  IF d = "BUY"
    THEN IF rich THEN {<<9500, 11000>>, <<11000, 9500>>}
                 ELSE {<<9500, 11000>>}
    ELSE IF rich THEN {<<11000, 9500>>, <<12000, 10600>>}
                 ELSE {<<11000, 9500>>}
Amounts(rich) == IF rich THEN {0, EGP(5), EGP(1000)} ELSE {EGP(1000)}
ExitPrices(rich) ==
  IF rich THEN {EGP(9), EGP(10), EGP(10) + 4, EGP(11), EGP(21)}
          ELSE {EGP(9), EGP(11)}
ResetCapitals(rich) ==
  IF rich THEN {DefaultCapital, EGP(995), EGP(1000)} ELSE {DefaultCapital}
\* What the price provider and the scorer deliver (rounded to the cent).
SignalPrices == {EGP(10)}
ProviderPrices == {EGP(9), 10500, EGP(11)}
trade_amount == EGP(1000)

\* ------------------------------------------------------ pure arithmetic
\* round(x, 2): nearest multiple of 10 thousandths, ties to the even cent.
Round2(x) ==
  LET r == x % 10
      f == x - r
  IN  IF r < 5 THEN f
      ELSE IF r > 5 THEN f + 10
      ELSE IF (f \div 10) % 2 = 0 THEN f ELSE f + 10

\* round(n / d * 100, 2) in hundredths of a percent, d > 0.
RoundPercent(n, d) ==
  LET m == n * 10000
      q == m \div d
      r == m % d
  IN  IF 2 * r < d THEN q
      ELSE IF 2 * r > d THEN q + 1
      ELSE IF q % 2 = 0 THEN q ELSE q + 1

\* round(n / d) for d > 0: the nearest integer, ties to the even one.
RoundDiv(n, d) ==
  LET q == n \div d
      r == n % d
  IN  IF 2 * r < d THEN q
      ELSE IF 2 * r > d THEN q + 1
      ELSE IF q % 2 = 0 THEN q ELSE q + 1

\* int(a / b) for b > 0: truncation toward zero.
IntDiv(a, b) == IF a >= 0 THEN a \div b ELSE -((-a) \div b)

\* ------------------------------------------------------------- the state
VARIABLES
  initial_capital,   \* self.initial_capital
  current_capital,   \* self.current_capital
  trades,            \* self.trades: sequence of references
  open_trades,       \* self.open_trades: ticker -> reference, 0 = absent
  heap,              \* the Trade objects
  lock,              \* self._lock: "free", or the thread that holds it
  portfolio_file,    \* portfolio.json
  trades_file,       \* trades_history.json
  now,               \* datetime.now(); it stands still in Spec and SeqSpec,
                     \* where no step reads a timestamp back
  th,                \* per thread: position in the code and local variables
  calls,             \* history variable: the calls made so far
  applied,           \* history variable: the capital with every debit and
                     \* credit applied as one indivisible update
  df,                \* scorer: the latest row of the frame being scanned
  scan_pc,           \* scorer: position of scan_all_stocks on that frame
  indicators,        \* scorer: what calculate_all_indicators returned
  signal,            \* scorer: the TradingSignal built from it, with the
                     \* local variables of generate_trading_signal
  auto_settings,     \* auto_settings.auto_settings, the global dict
  cycle,             \* worker_auto_trade: position and local variables
  price_task         \* worker_update_prices: position and local variables

vars == <<initial_capital, current_capital, trades, open_trades, heap, lock,
          portfolio_file, trades_file, now, th, calls, applied,
          df, scan_pc, indicators, signal, auto_settings, cycle,
          price_task>>

\* ------------------------------------------------ technical_analysis.py
\* Units: prices in thousandths, RSI and volume ratio in hundredths, MACD
\* in hundred-thousandths, scores in points, the confidence of a signal in
\* tenths of a percent.
rsi_oversold == 30 * 100
rsi_overbought == 70 * 100
volume_spike_threshold == 150
sma_long == 50
SignalTypes == {"STRONG_BUY", "BUY", "HOLD", "SELL", "STRONG_SELL"}

\* The latest values of the rolling series of a data frame.  Bands and
\* moving averages are given in percent of the close.
Bars == {sma_long - 1, sma_long}
ClosePrices == {90, 200, EGP(10)}
RsiValues == {2500, 3000, 4000, 4500, 5000, 5500, 6000, 7000, 7500}
MacdLines == {-10, 0, 4, 10}
MacdSignals == {0}
Bands == {<<90, 95>>, <<95, 105>>, <<105, 110>>}
SmaPercents == {90, 100, 110}
EmaPairs == {<<1, 0>>, <<0, 1>>, <<1, 1>>}
VolumeRatios == {100, 150, 200}
Frames ==
  [bars : Bars, close : ClosePrices, rsi : RsiValues, macd : MacdLines,
   macd_signal : MacdSignals, band : Bands, sma_short : SmaPercents,
   sma_long : SmaPercents, ema : EmaPairs, volume_ratio : VolumeRatios]
NoFrame ==
  [bars |-> 0, close |-> 0, rsi |-> 0, macd |-> 0, macd_signal |-> 0,
   band |-> <<0, 0>>, sma_short |-> 0, sma_long |-> 0, ema |-> <<0, 0>>,
   volume_ratio |-> 0]
Of(percent, close) == (percent * close) \div 100

NoIndicators ==
  [none |-> TRUE, price |-> 0, rsi |-> 0, macd_trend |-> "none",
   histogram |-> 0, bb_position |-> "none", sma_trend |-> "none",
   ema_trend |-> "none", price_above_sma20 |-> FALSE,
   price_above_sma50 |-> FALSE, is_volume_spike |-> FALSE]
\* lines 109-172; round(x, 4) of the histogram
calculate_all_indicators(row) ==
  IF row.bars < sma_long THEN NoIndicators
  ELSE [none |-> FALSE,
        price |-> Round2(row.close),
        rsi |-> row.rsi,
        macd_trend |-> IF row.macd > row.macd_signal THEN "up" ELSE "down",
        histogram |-> 10 * RoundDiv(row.macd - row.macd_signal, 10),
        bb_position |->
          IF row.close > Of(row.band[2], row.close) THEN "above"
          ELSE IF row.close < Of(row.band[1], row.close) THEN "below"
          ELSE "middle",
        sma_trend |-> IF row.sma_short > row.sma_long THEN "up" ELSE "down",
        ema_trend |-> IF row.ema[1] > row.ema[2] THEN "up" ELSE "down",
        price_above_sma20 |-> row.close > Of(row.sma_short, row.close),
        price_above_sma50 |-> row.close > Of(row.sma_long, row.close),
        is_volume_spike |-> row.volume_ratio > volume_spike_threshold]

\* lines 201-211
RsiBuy(ind) ==
  IF ind.rsi < rsi_oversold THEN 20
  ELSE IF ind.rsi > rsi_overbought THEN 0
  ELSE IF ind.rsi < 4500 THEN 10 ELSE 0
RsiSell(ind) ==
  IF ind.rsi < rsi_oversold THEN 0
  ELSE IF ind.rsi > rsi_overbought THEN 20
  ELSE IF ind.rsi < 4500 THEN 0
  ELSE IF ind.rsi > 5500 THEN 10 ELSE 0
\* Fault variant: no points for the sign of the histogram.
MacdBuyFlat(ind) == IF ind.macd_trend = "up" THEN 15 ELSE 0
\* lines 217-227
MacdBuy(ind) ==
  IF ind.macd_trend = "up"
    THEN 15 + (IF ind.histogram > 0 THEN 10 ELSE 0)
    ELSE 0
\* Fault variant: points for the sell side only with a falling histogram.
MacdSellIfFalling(ind) ==
  IF ind.macd_trend # "up" /\ ind.histogram < 0 THEN 25 ELSE 0
MacdSell(ind) ==
  IF ind.macd_trend = "up" THEN 0
  ELSE 15 + (IF ind.histogram < 0 THEN 10 ELSE 0)
\* lines 234-238
BollingerBuy(ind) == IF ind.bb_position = "below" THEN 15 ELSE 0
BollingerSell(ind) ==
  IF ind.bb_position = "below" THEN 0
  ELSE IF ind.bb_position = "above" THEN 15 ELSE 0
\* lines 247-251
TrendBuy(ind) ==
  IF ind.sma_trend = "up" /\ ind.ema_trend = "up" THEN 15 ELSE 0
TrendSell(ind) ==
  IF ind.sma_trend = "up" /\ ind.ema_trend = "up" THEN 0
  ELSE IF ind.sma_trend = "down" /\ ind.ema_trend = "down" THEN 15 ELSE 0
\* lines 254-258
SmaBuy(ind) ==
  IF ind.price_above_sma20 /\ ind.price_above_sma50 THEN 10 ELSE 0
SmaSell(ind) ==
  IF ind.price_above_sma20 /\ ind.price_above_sma50 THEN 0
  ELSE IF ~ind.price_above_sma20 /\ ~ind.price_above_sma50 THEN 10 ELSE 0
\* buy_score and sell_score when line 263 is reached
BuyBeforeVolume(ind) ==
  RsiBuy(ind) + MacdBuy(ind) + BollingerBuy(ind) + TrendBuy(ind) + SmaBuy(ind)
SellBeforeVolume(ind) ==
  RsiSell(ind) + MacdSell(ind) + BollingerSell(ind) + TrendSell(ind)
    + SmaSell(ind)
\* Fault variant: the bonus goes to the buy side on a tie.
BonusToBuyOnTie(buy, sell) == buy >= sell
\* line 264
BonusToBuy(buy, sell) == buy > sell
\* lines 263-268
buy_score(ind) ==
  BuyBeforeVolume(ind)
    + (IF /\ ind.is_volume_spike
          /\ BonusToBuy(BuyBeforeVolume(ind), SellBeforeVolume(ind))
         THEN 15 ELSE 0)
sell_score(ind) ==
  SellBeforeVolume(ind)
    + (IF /\ ind.is_volume_spike
          /\ ~BonusToBuy(BuyBeforeVolume(ind), SellBeforeVolume(ind))
         THEN 15 ELSE 0)
\* lines 272-293: the confidence before it is rounded, as a fraction
\* num / den, and the tests confidence >= 75 and confidence >= 55
Confidence(buy, sell) ==
  IF buy + sell = 0 THEN [num |-> 50, den |-> 1]
  ELSE IF buy > sell THEN [num |-> 100 * buy, den |-> buy + sell]
  ELSE [num |-> 100 * sell, den |-> buy + sell]
\* Fault variant: the BUY and SELL classes start at 50.
AtLeastFrom50(conf, percent) ==
  conf.num >= (IF percent = 55 THEN 50 ELSE percent) * conf.den
AtLeast(conf, percent) == conf.num >= percent * conf.den
signal_type(buy, sell) ==
  IF buy + sell = 0 THEN "HOLD"
  ELSE IF buy > sell
    THEN IF AtLeast(Confidence(buy, sell), 75) THEN "STRONG_BUY"
         ELSE IF AtLeast(Confidence(buy, sell), 55) THEN "BUY" ELSE "HOLD"
    ELSE IF AtLeast(Confidence(buy, sell), 75) THEN "STRONG_SELL"
         ELSE IF AtLeast(Confidence(buy, sell), 55) THEN "SELL" ELSE "HOLD"
\* Fault variant: every class with the stops of the BUY class.
BuyClassSide(type) == 1
\* lines 299-310: 1 for stop below and target above, -1 for the reverse
Side(type) == IF type \in {"SELL", "STRONG_SELL"} THEN -1 ELSE 1
\* lines 296-310 and 320-321, rounded to the cent
StopLoss(type, price) ==
  10 * RoundDiv(price * (100 - Side(type) * stop_loss_percent), 1000)
TakeProfit(type, price) ==
  10 * RoundDiv(price * (100 + Side(type) * take_profit_percent), 1000)

NoSignal ==
  [none |-> TRUE, signal_type |-> "none", confidence |-> 0, price |-> 0,
   entry_price |-> 0, stop_loss |-> 0, take_profit |-> 0,
   buy_score |-> 0, sell_score |-> 0]
\* lines 187-325; round(confidence, 1)
generate_trading_signal(ind) ==
  IF ind.none THEN NoSignal
  ELSE LET buy == buy_score(ind)
           sell == sell_score(ind)
           type == signal_type(buy, sell)
           conf == Confidence(buy, sell)
       IN  [none |-> FALSE,
            signal_type |-> type,
            confidence |-> RoundDiv(10 * conf.num, conf.den),
            price |-> ind.price,
            entry_price |-> Round2(ind.price),
            stop_loss |-> StopLoss(type, ind.price),
            take_profit |-> TakeProfit(type, ind.price),
            buy_score |-> buy,
            sell_score |-> sell]

\* ------------------------------------------------------ auto_settings.py
DEFAULT_SETTINGS ==
  [auto_trade_enabled |-> TRUE, min_confidence |-> 65,
   max_open_trades |-> 100, trade_amount |-> trade_amount]

\* app.py worker_auto_trade: asleep between two cycles, nothing scanned
\* (flag_at_call and amount_at_start are history fields: the flag when
\* open_trade was called, the trade_amount when line 327 read the flag.)
StartCycle ==
  [pc |-> "sleep", last |-> "none", enabled |-> FALSE, current_open |-> 0,
   max_trades |-> 0, min_conf |-> 0, buy_signals |-> <<>>, now |-> 0,
   cooldown_tickers |-> {}, opened |-> 0, flag_at_call |-> FALSE,
   amount_at_start |-> 0]

NullTrade ==
  [id |-> 0, ticker |-> "none", direction |-> "none", entry_price |-> 0,
   current_price |-> 0, stop_loss |-> 0, take_profit |-> 0, quantity |-> 0,
   investment_amount |-> 0, entry_time |-> None, exit_time |-> None,
   exit_price |-> None, status |-> "NULL", pnl |-> 0, pnl_percent |-> 0]

NoFile == [exists |-> FALSE, data |-> <<>>]

\* The ledger as a caller sees it: values, not references.
History == [i \in 1..Len(trades) |-> heap[trades[i]]]
OpenView == [k \in Tickers |->
               IF open_trades[k] = 0 THEN NullTrade ELSE heap[open_trades[k]]]
Snapshot ==
  [initial |-> initial_capital, capital |-> current_capital,
   history |-> History, open |-> OpenView,
   portfolio_file |-> portfolio_file, trades_file |-> trades_file]
NoSnapshot ==
  [initial |-> 0, capital |-> 0, history |-> <<>>,
   open |-> [k \in Tickers |-> NullTrade],
   portfolio_file |-> NoFile, trades_file |-> NoFile]

IdleLocals ==
  [pc |-> "idle", op |-> "none", ticker |-> "none", direction |-> "none",
   price |-> 0, stop_loss |-> 0, take_profit |-> 0, amount |-> 0,
   investment |-> 0, quantity |-> 0, actual |-> 0, trade |-> 0,
   reason |-> "none", loaded |-> 0, result |-> 0, raised |-> FALSE,
   solo |-> FALSE, pre |-> NoSnapshot, view |-> NoSnapshot.open]

Running(t) == th[t].pc \notin {"idle", "done"}
Solo(t) == \A u \in Threads \ {t} : th[u].pc = "idle"

\* Objects no list, dict or local variable refers to are collected.
Collect(h, tr, ot, locals) ==
  LET live == {tr[i] : i \in 1..Len(tr)} \cup {ot[k] : k \in Tickers}
              \cup {locals[u].trade : u \in Threads}
  IN  [i \in Cells |-> IF i \in live THEN h[i] ELSE NullTrade]

FreeCells == {i \in Cells : heap[i] = NullTrade}
NewCell == CHOOSE i \in FreeCells : \A j \in FreeCells : i <= j

\* worker_update_prices before its first sleep ends
StartPrices == [pc |-> "sleep", todo |-> {}, last |-> "none"]
InitPortfolio ==
  /\ initial_capital = DefaultCapital
  /\ current_capital = DefaultCapital
  /\ trades = <<>>
  /\ open_trades = [k \in Tickers |-> 0]
  /\ heap = [i \in Cells |-> NullTrade]
  /\ lock = "free"
  /\ portfolio_file = NoFile
  /\ trades_file = NoFile
  /\ now = 0
  /\ th = [t \in Threads |-> IdleLocals]
  /\ calls = 0
  /\ applied = DefaultCapital
  /\ auto_settings = DEFAULT_SETTINGS
  /\ cycle = StartCycle
  /\ price_task = StartPrices
Init ==
  /\ InitPortfolio
  /\ df = NoFrame
  /\ scan_pc = "idle"
  /\ indicators = NoIndicators
  /\ signal = NoSignal
\* scan_all_stocks is handed one data frame
ScanInit ==
  /\ InitPortfolio
  /\ df \in Frames
  /\ scan_pc = "frame"
  /\ indicators = NoIndicators
  /\ signal = NoSignal

Ledger == <<initial_capital, current_capital, trades, open_trades, heap>>
Files == <<portfolio_file, trades_file>>
Scan == <<df, scan_pc, indicators, signal>>
Auto == <<auto_settings, cycle, price_task>>

\* One step of thread t that only moves it to `pc` with locals `upd`.
Goto(t, l) == th' = [th EXCEPT ![t] = l]
Finish(t, l, res) ==
  Goto(t, [l EXCEPT !.pc = "done", !.result = res])
Raise(t, l) ==
  Goto(t, [l EXCEPT !.pc = "done", !.result = 0, !.raised = TRUE])
\* A call starts; with `alone` only when every other thread is idle.
Call(t, l, alone) ==
  /\ th[t].pc = "idle"
  /\ alone => Solo(t)
  /\ calls < MaxCalls
  /\ calls' = calls + 1
  /\ Goto(t, [l EXCEPT !.solo = Solo(t),
                       !.pre = IF Solo(t) THEN Snapshot ELSE NoSnapshot])
  /\ UNCHANGED <<Scan, Ledger, Files, lock, now, applied>>

\* ------------------------------------------------------------ open_trade
\* Fault variant: the duplicate test never finds the instrument.
NeverOpen(ticker) == FALSE
\* line 125
AlreadyOpen(ticker) == open_trades[ticker] # 0
Investment(amount) == IF amount # 0 THEN amount ELSE default_trade_amount
\* Fault variant: the capital test on the floored amount.
FlooredExceedsCapital(investment, actual_investment) ==
  actual_investment > current_capital
\* line 131 (the floored amount of line 139 plays no part in it)
InsufficientCapital(investment, actual_investment) ==
  investment > current_capital
Quantity(investment, entry_price) == IntDiv(investment, entry_price)
ActualInvestment(quantity, entry_price) == quantity * entry_price
NextId == Len(trades) + 1
NewTrade(l) ==
  [id |-> NextId, ticker |-> l.ticker, direction |-> l.direction,
   entry_price |-> Round2(l.price), current_price |-> Round2(l.price),
   stop_loss |-> Round2(l.stop_loss), take_profit |-> Round2(l.take_profit),
   quantity |-> l.quantity, investment_amount |-> Round2(l.actual),
   entry_time |-> now, exit_time |-> None, exit_price |-> None,
   status |-> "OPEN", pnl |-> 0, pnl_percent |-> 0]
Debit(capital, actual_investment) == capital - actual_investment

\* app.py open_new_trade: the values of the request body
RequestOpen(t, rich) ==
  /\ t = "request"
  /\ \E k \in Tickers, d \in Directions, e \in EntryPrices(rich),
        a \in Amounts(rich) :
       \E sp \in StopPairs(rich, d) :
         Call(t, [IdleLocals EXCEPT !.pc = "o_check", !.op = "open",
                    !.ticker = k, !.direction = d, !.price = e,
                    !.stop_loss = sp[1], !.take_profit = sp[2], !.amount = a],
              rich)
  /\ UNCHANGED Auto

\* technical_analysis.py generate_trading_signal, a BUY-class signal
SignalStopLoss(price) == StopLoss("BUY", price)
SignalTakeProfit(price) == TakeProfit("BUY", price)

\* app.py worker_auto_trade: the values of a buy signal
WorkerOpen(t, rich) ==
  /\ t = "worker"
  /\ \E k \in Tickers, e \in SignalPrices :
       Call(t, [IdleLocals EXCEPT !.pc = "o_check", !.op = "open",
                  !.ticker = k, !.direction = "BUY", !.price = e,
                  !.stop_loss = SignalStopLoss(e),
                  !.take_profit = SignalTakeProfit(e),
                  !.amount = trade_amount], rich)
  /\ UNCHANGED Auto

\* line 125
OpenCheck(t) ==
  /\ th[t].pc = "o_check"
  /\ IF AlreadyOpen(th[t].ticker)
       THEN Finish(t, th[t], 0)
       ELSE Goto(t, [th[t] EXCEPT !.pc = "o_capital"])
  /\ UNCHANGED <<Scan, Auto, Ledger, Files, lock, now, calls, applied>>

\* lines 128-139
OpenCapital(t) ==
  LET inv == Investment(th[t].amount)
      q == Quantity(inv, th[t].price)
      act == ActualInvestment(q, th[t].price)
  IN  /\ th[t].pc = "o_capital"
      /\ IF InsufficientCapital(inv, act) \/ q <= 0
           THEN Finish(t, th[t], 0)
           ELSE Goto(t, [th[t] EXCEPT !.pc = "o_create", !.investment = inv,
                           !.quantity = q, !.actual = act])
      /\ UNCHANGED <<Scan, Auto, Ledger, Files, lock, now, calls, applied>>

\* lines 142-162
OpenCreate(t) ==
  /\ th[t].pc = "o_create"
  /\ heap' = [heap EXCEPT ![NewCell] = NewTrade(th[t])]
  /\ Goto(t, [th[t] EXCEPT !.pc = "o_debit_load", !.trade = NewCell])
  /\ UNCHANGED <<Scan, Auto, initial_capital, current_capital, trades, open_trades,
                 Files, lock, now, calls, applied>>

\* line 165, the read of self.current_capital
OpenDebitLoad(t) ==
  /\ th[t].pc = "o_debit_load"
  /\ Goto(t, [th[t] EXCEPT !.pc = "o_debit_store", !.loaded = current_capital])
  /\ UNCHANGED <<Scan, Auto, Ledger, Files, lock, now, calls, applied>>

\* line 165, the write of self.current_capital
OpenDebitStore(t) ==
  /\ th[t].pc = "o_debit_store"
  /\ current_capital' = Debit(th[t].loaded, th[t].actual)
  /\ applied' = applied - th[t].actual
  /\ Goto(t, [th[t] EXCEPT !.pc = "o_append"])
  /\ UNCHANGED <<Scan, Auto, initial_capital, trades, open_trades, heap, Files, lock, now, calls>>

\* line 168
OpenAppend(t) ==
  /\ th[t].pc = "o_append"
  /\ trades' = Append(trades, th[t].trade)
  /\ Goto(t, [th[t] EXCEPT !.pc = "o_index"])
  /\ UNCHANGED <<Scan, Auto, initial_capital, current_capital, open_trades, heap, Files,
                 lock, now, calls, applied>>

\* lines 169-174: index the trade, then _save_data() and return it
OpenIndex(t) ==
  /\ th[t].pc = "o_index"
  /\ open_trades' = [open_trades EXCEPT ![th[t].ticker] = th[t].trade]
  /\ Goto(t, [th[t] EXCEPT !.pc = "s_lock", !.result = th[t].trade])
  /\ UNCHANGED <<Scan, Auto, initial_capital, current_capital, trades, heap, Files, lock,
                 now, calls, applied>>

\* ---------------------------------------------------- update_trade_price
\* Fault variant: a SHORT position valued like a LONG one.
PnlLongOnly(direction, price, entry_price, quantity) ==
  Round2((price - entry_price) * quantity)
\* lines 185-188 and 218-222
Pnl(direction, price, entry_price, quantity) ==
  IF direction = "BUY"
    THEN Round2((price - entry_price) * quantity)
    ELSE Round2((entry_price - price) * quantity)
PnlPercent(direction, price, entry_price) ==
  IF direction = "BUY"
    THEN RoundPercent(price - entry_price, entry_price)
    ELSE RoundPercent(entry_price - price, entry_price)
\* Fault variant: the SHORT side tested like the LONG side.
ExitReasonLongOnly(direction, price, stop_loss, take_profit) ==
  IF price <= stop_loss THEN "STOP_LOSS"
  ELSE IF price >= take_profit THEN "TAKE_PROFIT" ELSE "none"
\* lines 193-202
ExitReason(direction, price, stop_loss, take_profit) ==
  IF direction = "BUY"
    THEN IF price <= stop_loss THEN "STOP_LOSS"
         ELSE IF price >= take_profit THEN "TAKE_PROFIT" ELSE "none"
    ELSE IF price >= stop_loss THEN "STOP_LOSS"
         ELSE IF price <= take_profit THEN "TAKE_PROFIT" ELSE "none"

\* app.py worker_update_prices: a provider price for a ticker it saw open
WorkerUpdate(t, rich) ==
  /\ t = "worker"
  /\ \E k \in Tickers, p \in ProviderPrices :
       Call(t, [IdleLocals EXCEPT !.pc = "u_check", !.op = "update",
                  !.ticker = k, !.price = p], rich)
  /\ UNCHANGED Auto

\* line 178
UpdateCheck(t) ==
  /\ th[t].pc = "u_check"
  /\ IF AlreadyOpen(th[t].ticker)
       THEN Goto(t, [th[t] EXCEPT !.pc = "u_get"])
       ELSE Finish(t, th[t], 0)
  /\ UNCHANGED <<Scan, Auto, Ledger, Files, lock, now, calls, applied>>

\* line 181; a key deleted since the check raises KeyError
UpdateGet(t) ==
  /\ th[t].pc = "u_get"
  /\ IF open_trades[th[t].ticker] = 0
       THEN Raise(t, th[t])
       ELSE Goto(t, [th[t] EXCEPT !.pc = "u_price",
                       !.trade = open_trades[th[t].ticker]])
  /\ UNCHANGED <<Scan, Auto, Ledger, Files, lock, now, calls, applied>>

\* Fault variant: an update that leaves current_price as it was.
UpdateKeepPrice(t) ==
  /\ th[t].pc = "u_price"
  /\ Goto(t, [th[t] EXCEPT !.pc = "u_pnl"])
  /\ UNCHANGED <<Scan, Auto, Ledger, Files, lock, now, calls, applied>>
\* line 182
UpdateSetPrice(t) ==
  /\ th[t].pc = "u_price"
  /\ IF th[t].price = None
       THEN Raise(t, th[t]) /\ UNCHANGED heap
       ELSE /\ heap' = [heap EXCEPT
                  ![th[t].trade].current_price = Round2(th[t].price)]
            /\ Goto(t, [th[t] EXCEPT !.pc = "u_pnl"])
  /\ UNCHANGED <<Scan, Auto, initial_capital, current_capital, trades, open_trades,
                 Files, lock, now, calls, applied>>

\* lines 185-190
UpdateSetPnl(t) ==
  LET tr == heap[th[t].trade] IN
  /\ th[t].pc = "u_pnl"
  /\ heap' = [heap EXCEPT
       ![th[t].trade].pnl =
          Pnl(tr.direction, th[t].price, tr.entry_price, tr.quantity),
       ![th[t].trade].pnl_percent =
          PnlPercent(tr.direction, th[t].price, tr.entry_price)]
  /\ Goto(t, [th[t] EXCEPT !.pc = "u_exit"])
  /\ UNCHANGED <<Scan, Auto, initial_capital, current_capital, trades, open_trades,
                 Files, lock, now, calls, applied>>

\* lines 193-205: close_trade(ticker, current_price, reason), or
\* _save_data() and return the trade
UpdateExit(t) ==
  LET tr == heap[th[t].trade]
      why == ExitReason(tr.direction, th[t].price, tr.stop_loss, tr.take_profit)
  IN  /\ th[t].pc = "u_exit"
      /\ IF why # "none"
           THEN Goto(t, [th[t] EXCEPT !.pc = "c_check", !.reason = why])
           ELSE Goto(t, [th[t] EXCEPT !.pc = "s_lock", !.result = th[t].trade])
      /\ UNCHANGED <<Scan, Auto, Ledger, Files, lock, now, calls, applied>>

\* ----------------------------------------------------------- close_trade
\* lines 226-231
CloseStatus(reason, pnl) ==
  IF reason = "STOP_LOSS" \/ pnl < 0 THEN "CLOSED_LOSS"
  ELSE IF reason = "TAKE_PROFIT" \/ pnl > 0 THEN "CLOSED_PROFIT"
  ELSE "CLOSED_MANUAL"
\* Fault variant: a close that credits the pnl without the investment.
CreditPnlOnly(capital, investment_amount, pnl) == capital + pnl
\* line 234
Credit(capital, investment_amount, pnl) == capital + (investment_amount + pnl)
\* Fault variant: a close that leaves the instrument in the index.
KeepOpenTrade(ot, ticker) == ot
\* line 237
DelOpenTrade(ot, ticker) == [ot EXCEPT ![ticker] = 0]

\* app.py close_trade: the exit price of the request body
RequestClose(t, rich) ==
  /\ t = "request"
  /\ \E k \in Tickers, p \in ExitPrices(rich) :
       Call(t, [IdleLocals EXCEPT !.pc = "c_check", !.op = "close",
                  !.ticker = k, !.price = p, !.reason = "MANUAL"], rich)
  /\ UNCHANGED Auto

\* line 209
CloseCheck(t) ==
  /\ th[t].pc = "c_check"
  /\ IF AlreadyOpen(th[t].ticker)
       THEN Goto(t, [th[t] EXCEPT !.pc = "c_get"])
       ELSE Finish(t, th[t], 0)
  /\ UNCHANGED <<Scan, Auto, Ledger, Files, lock, now, calls, applied>>

\* line 212; a key deleted since the check raises KeyError
CloseGet(t) ==
  /\ th[t].pc = "c_get"
  /\ IF open_trades[th[t].ticker] = 0
       THEN Raise(t, th[t])
       ELSE Goto(t, [th[t] EXCEPT !.pc = "c_exit",
                       !.trade = open_trades[th[t].ticker]])
  /\ UNCHANGED <<Scan, Auto, Ledger, Files, lock, now, calls, applied>>

\* lines 213-215
CloseSetExit(t) ==
  /\ th[t].pc = "c_exit"
  /\ heap' = [heap EXCEPT
       ![th[t].trade].exit_price = Round2(th[t].price),
       ![th[t].trade].exit_time = now,
       ![th[t].trade].current_price = Round2(th[t].price)]
  /\ Goto(t, [th[t] EXCEPT !.pc = "c_pnl"])
  /\ UNCHANGED <<Scan, Auto, initial_capital, current_capital, trades, open_trades,
                 Files, lock, now, calls, applied>>

\* lines 218-223
CloseSetPnl(t) ==
  LET tr == heap[th[t].trade] IN
  /\ th[t].pc = "c_pnl"
  /\ heap' = [heap EXCEPT
       ![th[t].trade].pnl =
          Pnl(tr.direction, th[t].price, tr.entry_price, tr.quantity),
       ![th[t].trade].pnl_percent =
          PnlPercent(tr.direction, th[t].price, tr.entry_price)]
  /\ Goto(t, [th[t] EXCEPT !.pc = "c_status"])
  /\ UNCHANGED <<Scan, Auto, initial_capital, current_capital, trades, open_trades,
                 Files, lock, now, calls, applied>>

\* lines 226-231
CloseSetStatus(t) ==
  /\ th[t].pc = "c_status"
  /\ heap' = [heap EXCEPT ![th[t].trade].status =
                CloseStatus(th[t].reason, heap[th[t].trade].pnl)]
  /\ Goto(t, [th[t] EXCEPT !.pc = "c_credit_load"])
  /\ UNCHANGED <<Scan, Auto, initial_capital, current_capital, trades, open_trades,
                 Files, lock, now, calls, applied>>

\* line 234, the read of self.current_capital
CloseCreditLoad(t) ==
  /\ th[t].pc = "c_credit_load"
  /\ Goto(t, [th[t] EXCEPT !.pc = "c_credit_store", !.loaded = current_capital])
  /\ UNCHANGED <<Scan, Auto, Ledger, Files, lock, now, calls, applied>>

\* line 234, the write of self.current_capital
CloseCreditStore(t) ==
  LET tr == heap[th[t].trade] IN
  /\ th[t].pc = "c_credit_store"
  /\ current_capital' = Credit(th[t].loaded, tr.investment_amount, tr.pnl)
  /\ applied' = applied + (tr.investment_amount + tr.pnl)
  /\ Goto(t, [th[t] EXCEPT !.pc = "c_del"])
  /\ UNCHANGED <<Scan, Auto, initial_capital, trades, open_trades, heap, Files, lock, now, calls>>

\* lines 237-240: del raises KeyError when the key is gone; otherwise
\* _save_data() and return the trade
CloseDel(t) ==
  /\ th[t].pc = "c_del"
  /\ IF open_trades[th[t].ticker] = 0
       THEN Raise(t, th[t]) /\ UNCHANGED open_trades
       ELSE /\ open_trades' = DelOpenTrade(open_trades, th[t].ticker)
            /\ Goto(t, [th[t] EXCEPT !.pc = "s_lock", !.result = th[t].trade])
  /\ UNCHANGED <<Scan, Auto, initial_capital, current_capital, trades, heap, Files, lock,
                 now, calls, applied>>

\* ------------------------------------------------------- reset_portfolio
\* app.py reset_portfolio: the capital of the request body
\* app.py reset_portfolio, lines 233-249: auto-trading is switched off, then
\* the portfolio is reset
RequestReset(t, rich) ==
  /\ t = "request"
  /\ \E c \in ResetCapitals(rich) :
       Call(t, [IdleLocals EXCEPT !.pc = "r_initial", !.op = "reset",
                  !.amount = c], rich)
  /\ auto_settings' = [auto_settings EXCEPT !.auto_trade_enabled = FALSE]
  /\ UNCHANGED <<cycle, price_task>>

\* line 287
ResetInitial(t) ==
  /\ th[t].pc = "r_initial"
  /\ initial_capital' = th[t].amount
  /\ Goto(t, [th[t] EXCEPT !.pc = "r_current"])
  /\ UNCHANGED <<Scan, Auto, current_capital, trades, open_trades, heap, Files, lock,
                 now, calls, applied>>

\* line 288
ResetCurrent(t) ==
  /\ th[t].pc = "r_current"
  /\ current_capital' = th[t].amount
  /\ applied' = th[t].amount
  /\ Goto(t, [th[t] EXCEPT !.pc = "r_trades"])
  /\ UNCHANGED <<Scan, Auto, initial_capital, trades, open_trades, heap, Files, lock, now, calls>>

\* Fault variant: a reset that keeps the history.
ResetKeepTrades(t) ==
  /\ th[t].pc = "r_trades"
  /\ Goto(t, [th[t] EXCEPT !.pc = "r_open"])
  /\ UNCHANGED <<Scan, Auto, Ledger, Files, lock, now, calls, applied>>
\* line 289
ResetTrades(t) ==
  /\ th[t].pc = "r_trades"
  /\ trades' = <<>>
  /\ heap' = Collect(heap, trades', open_trades, th)
  /\ Goto(t, [th[t] EXCEPT !.pc = "r_open"])
  /\ UNCHANGED <<Scan, Auto, initial_capital, current_capital, open_trades, Files, lock,
                 now, calls, applied>>

\* line 290
ResetOpen(t) ==
  /\ th[t].pc = "r_open"
  /\ open_trades' = [k \in Tickers |-> 0]
  /\ heap' = Collect(heap, trades, open_trades', th)
  /\ Goto(t, [th[t] EXCEPT !.pc = "r_remove"])
  /\ UNCHANGED <<Scan, Auto, initial_capital, current_capital, trades, Files, lock, now,
                 applied, calls>>

\* lines 293-298: both files removed, then _save_data()
ResetRemove(t) ==
  /\ th[t].pc = "r_remove"
  /\ portfolio_file' = NoFile
  /\ trades_file' = NoFile
  /\ Goto(t, [th[t] EXCEPT !.pc = "s_lock", !.result = 0])
  /\ UNCHANGED <<Scan, Auto, Ledger, lock, now, calls, applied>>

\* ------------------------------------------------------------ _save_data
\* line 94
SaveLock(t) ==
  /\ th[t].pc = "s_lock"
  /\ lock = "free"
  /\ lock' = t
  /\ Goto(t, [th[t] EXCEPT !.pc = "s_portfolio"])
  /\ UNCHANGED <<Scan, Auto, Ledger, Files, now, applied, calls>>

\* lines 96-102
SavePortfolio(t) ==
  /\ th[t].pc = "s_portfolio"
  /\ portfolio_file' =
       [exists |-> TRUE,
        data |-> <<[initial_capital |-> initial_capital,
                    current_capital |-> current_capital,
                    last_updated |-> now]>>]
  /\ Goto(t, [th[t] EXCEPT !.pc = "s_trades"])
  /\ UNCHANGED <<Scan, Auto, Ledger, trades_file, lock, now, calls, applied>>

\* lines 105-107, and the release of the lock
SaveTrades(t) ==
  /\ th[t].pc = "s_trades"
  /\ trades_file' = [exists |-> TRUE, data |-> History]
  /\ lock' = "free"
  /\ Goto(t, [th[t] EXCEPT !.pc = "done"])
  /\ UNCHANGED <<Scan, Auto, Ledger, portfolio_file, now, applied, calls>>

\* ------------------------------------------------------------ _load_data
\* lines 70-77; without the file the values of the constructor stay
\* (line 302: PaperTradingSystem(initial_capital=100000))
LoadedInitial ==
  IF portfolio_file.exists THEN portfolio_file.data[1].initial_capital
                           ELSE DefaultCapital
LoadedCurrent ==
  IF portfolio_file.exists THEN portfolio_file.data[1].current_capital
                           ELSE DefaultCapital
\* lines 80-85: one Trade per record of the file, in its order
LoadedTrades == IF trades_file.exists THEN trades_file.data ELSE <<>>
\* Fault variant: every loaded trade is put in the index.
IndexedOnLoadAny(trade) == TRUE
\* line 87
IndexedOnLoad(trade) == trade.status = "OPEN"
\* lines 87-88: a later record of a ticker replaces an earlier one
LoadedIndex(data) ==
  [k \in Tickers |->
     LET hits == {i \in 1..Len(data) :
                    data[i].ticker = k /\ IndexedOnLoad(data[i])}
     IN  IF hits = {} THEN 0
         ELSE CHOOSE i \in hits : \A j \in hits : j <= i]
\* The process restarts while no call runs: __init__, lines 56-65, builds
\* the ledger again from the two files.
Restart ==
  /\ \A t \in Threads : th[t].pc = "idle"
  /\ initial_capital' = LoadedInitial
  /\ current_capital' = LoadedCurrent
  /\ trades' = [i \in 1..Len(LoadedTrades) |-> i]
  /\ heap' = [i \in Cells |-> IF i <= Len(LoadedTrades) THEN LoadedTrades[i]
                                                        ELSE NullTrade]
  /\ open_trades' = LoadedIndex(LoadedTrades)
  /\ th' = [th EXCEPT !["request"] =
              [IdleLocals EXCEPT !.pc = "done", !.op = "restart",
                                 !.solo = TRUE, !.pre = Snapshot]]
  /\ UNCHANGED <<Scan, Auto, Files, lock, now, calls, applied>>

\* ------------------------------------------------------------ the system
\* The caller takes the result; the locals die.
Return(t) ==
  /\ th[t].pc = "done"
  /\ th' = [th EXCEPT ![t] = IdleLocals]
  /\ heap' = Collect(heap, trades, open_trades, th')
  /\ UNCHANGED <<Scan, Auto, initial_capital, current_capital, trades, open_trades,
                 Files, lock, now, calls, applied>>

Step(t, rich) ==
  \/ RequestOpen(t, rich) \/ WorkerOpen(t, rich)
  \/ OpenCheck(t) \/ OpenCapital(t) \/ OpenCreate(t)
  \/ OpenDebitLoad(t) \/ OpenDebitStore(t) \/ OpenAppend(t) \/ OpenIndex(t)
  \/ WorkerUpdate(t, rich) \/ UpdateCheck(t) \/ UpdateGet(t)
  \/ UpdateSetPrice(t) \/ UpdateSetPnl(t) \/ UpdateExit(t)
  \/ RequestClose(t, rich) \/ CloseCheck(t) \/ CloseGet(t) \/ CloseSetExit(t)
  \/ CloseSetPnl(t) \/ CloseSetStatus(t) \/ CloseCreditLoad(t)
  \/ CloseCreditStore(t) \/ CloseDel(t)
  \/ RequestReset(t, rich) \/ ResetInitial(t) \/ ResetCurrent(t)
  \/ ResetTrades(t) \/ ResetOpen(t) \/ ResetRemove(t)
  \/ SaveLock(t) \/ SavePortfolio(t) \/ SaveTrades(t)
  \/ Return(t)

\* Threads interleave step by step.
Next == \E t \in Threads : Step(t, FALSE)
Spec == Init /\ [][Next]_vars

\* One call at a time: a call starts only when every other thread is idle
\* (the guard of Call).
SeqNext == \E t \in Threads : Step(t, TRUE)
SeqSpec == Init /\ [][SeqNext]_vars
\* One call at a time, and restarts of the process between calls.
RestartNext == SeqNext \/ Restart
RestartSpec == Init /\ [][RestartNext]_vars

\* ------------------------------------------------- scan_all_stocks
\* One data frame is turned into indicators (line 187), then into a signal
\* (lines 192-325); with fewer than sma_long bars both are None.
CalculateIndicators ==
  /\ scan_pc = "frame"
  /\ df.bars >= sma_long
  /\ indicators' = calculate_all_indicators(df)
  /\ scan_pc' = "indicators"
  /\ UNCHANGED <<Auto, Ledger, Files, lock, now, th, calls, applied, df, signal>>
TooFewBars ==
  /\ scan_pc = "frame"
  /\ df.bars < sma_long
  /\ indicators' = calculate_all_indicators(df)
  /\ signal' = generate_trading_signal(indicators')
  /\ scan_pc' = "skipped"
  /\ UNCHANGED <<Auto, Ledger, Files, lock, now, th, calls, applied, df>>
GenerateSignal ==
  /\ scan_pc = "indicators"
  /\ signal' = generate_trading_signal(indicators)
  /\ scan_pc' = "signal"
  /\ UNCHANGED <<Auto, Ledger, Files, lock, now, th, calls, applied, df,
                 indicators>>
ScanNext == CalculateIndicators \/ TooFewBars \/ GenerateSignal
ScanSpec == ScanInit /\ [][ScanNext]_vars

\* ------------------------------------------------- get_portfolio_stats
\* line 258
ClosedTrades == SelectSeq(History, LAMBDA r : r.status # "OPEN")
OpenTickers == {k \in Tickers : open_trades[k] # 0}
RECURSIVE SumPnl(_)
SumPnl(s) == IF s = <<>> THEN 0 ELSE Head(s).pnl + SumPnl(Tail(s))
RECURSIVE SumUnrealized(_)
SumUnrealized(S) ==
  IF S = {} THEN 0
  ELSE LET k == CHOOSE x \in S : TRUE
       IN  heap[open_trades[k]].pnl + SumUnrealized(S \ {k})
RECURSIVE SumInvested(_)
SumInvested(S) ==
  IF S = {} THEN 0
  ELSE LET k == CHOOSE x \in S : TRUE
       IN  heap[open_trades[k]].investment_amount + SumInvested(S \ {k})
\* line 263
total_realized_pnl == SumPnl(ClosedTrades)
\* line 264
total_unrealized_pnl == SumUnrealized(OpenTickers)
\* line 271, before the rounding for display
total_equity == current_capital + SumInvested(OpenTickers) + total_unrealized_pnl

\* ------------------------------------------- app.py worker_auto_trade
\* The AutoTrader runs its calls of open_trade on the thread "worker".
cooldown_hours == 24
\* Three frames of the scan, at 10.00: the scenario of C18 (confidence
\* 100), buy 50 against sell 25 (66.7) and buy 40 against sell 25 (61.5).
StrongBuyFrame ==
  [bars |-> sma_long, close |-> EGP(10), rsi |-> 2500, macd |-> 10,
   macd_signal |-> 0, band |-> <<105, 110>>, sma_short |-> 100,
   sma_long |-> 90, ema |-> <<1, 0>>, volume_ratio |-> 200]
BuyFrame ==
  [bars |-> sma_long, close |-> EGP(10), rsi |-> 6000, macd |-> 10,
   macd_signal |-> 0, band |-> <<90, 95>>, sma_short |-> 95,
   sma_long |-> 90, ema |-> <<1, 0>>, volume_ratio |-> 100]
WeakBuyFrame ==
  [bars |-> sma_long, close |-> EGP(10), rsi |-> 6000, macd |-> 10,
   macd_signal |-> 0, band |-> <<90, 95>>, sma_short |-> 100,
   sma_long |-> 90, ema |-> <<1, 0>>, volume_ratio |-> 100]
CycleFrames == {StrongBuyFrame, BuyFrame, WeakBuyFrame}
\* get_multiple_stocks_data: one frame per ticker, in the order of the dict
TickerOrder == <<"X", "Y">>
StocksData == [Tickers -> CycleFrames]
SignalOf(stocks_data, k) ==
  generate_trading_signal(calculate_all_indicators(stocks_data[k]))
\* technical_analysis.py lines 339-346: the signals, highest confidence
\* first, equal confidences in the order of the dict
InsertSignal(x, s) ==
  LET n == Cardinality({i \in 1..Len(s) : s[i].confidence >= x.confidence})
  IN  SubSeq(s, 1, n) \o <<x>> \o SubSeq(s, n + 1, Len(s))
RECURSIVE scan_all_stocks(_, _)
scan_all_stocks(stocks_data, n) ==
  IF n = 0 THEN <<>>
  ELSE LET k == TickerOrder[n]
           sig == SignalOf(stocks_data, k)
           rest == scan_all_stocks(stocks_data, n - 1)
       IN  IF sig.none THEN rest
           ELSE InsertSignal(
                  [ticker |-> k, signal_type |-> sig.signal_type,
                   confidence |-> sig.confidence, price |-> sig.price,
                   stop_loss |-> sig.stop_loss,
                   take_profit |-> sig.take_profit], rest)
\* lines 356-358
BuySignals(all_signals, min_conf) ==
  SelectSeq(all_signals,
            LAMBDA x : /\ x.signal_type \in {"BUY", "STRONG_BUY"}
                       /\ x.confidence >= 10 * min_conf)
\* lines 363-375
CooldownTickers ==
  {History[i].ticker : i \in
     {j \in 1..Len(History) :
        /\ History[j].status # "OPEN"
        /\ History[j].exit_time # None
        /\ now - History[j].exit_time < cooldown_hours}}

Asleep(last) == [StartCycle EXCEPT !.last = last]
CycleVars == <<Scan, Ledger, Files, lock, now, th, calls, applied,
               auto_settings, price_task>>
\* line 327: the flag is read when a cycle starts
CycleFlag ==
  /\ cycle.pc = "sleep"
  /\ IF ~auto_settings.auto_trade_enabled
       THEN cycle' = Asleep("disabled")
       ELSE cycle' = [StartCycle EXCEPT !.pc = "market", !.enabled = TRUE,
                                        !.last = cycle.last,
                                        !.amount_at_start =
                                          auto_settings.trade_amount]
  /\ UNCHANGED CycleVars
\* line 333: is_market_hours()
CycleMarket ==
  /\ cycle.pc = "market"
  /\ \E is_market_hours \in BOOLEAN :
       IF ~is_market_hours
         THEN cycle' = Asleep("closed")
         ELSE cycle' = [cycle EXCEPT !.pc = "count"]
  /\ UNCHANGED CycleVars
\* lines 338-344
CycleCount ==
  /\ cycle.pc = "count"
  /\ LET current_open == Cardinality(OpenTickers)
         max_trades == auto_settings.max_open_trades
     IN  IF current_open >= max_trades
           THEN cycle' = Asleep("max")
           ELSE cycle' = [cycle EXCEPT !.pc = "scan",
                                       !.current_open = current_open,
                                       !.max_trades = max_trades]
  /\ UNCHANGED CycleVars
\* lines 349-383
CycleScan ==
  /\ cycle.pc = "scan"
  /\ \E stocks_data \in StocksData :
       LET all_signals == scan_all_stocks(stocks_data, Len(TickerOrder))
           min_conf == auto_settings.min_confidence
       IN  cycle' = [cycle EXCEPT
                       !.pc = "loop",
                       !.min_conf = min_conf,
                       !.buy_signals = BuySignals(all_signals, min_conf),
                       !.now = now,
                       !.cooldown_tickers = CooldownTickers,
                       !.opened = 0]
  /\ UNCHANGED CycleVars
\* Fault variant: the loop stops as soon as auto-trading is switched off.
LoopBreakOrDisabled(max_trades) ==
  \/ Cardinality(OpenTickers) >= max_trades
  \/ ~auto_settings.auto_trade_enabled
\* Fault variant: the count is not looked at again inside the loop.
LoopNeverBreaks(max_trades) == FALSE
\* line 388
LoopBreak(max_trades) == Cardinality(OpenTickers) >= max_trades
\* lines 386-400 and 416-433: the loop is left, or a signal is passed over
CycleLoop ==
  /\ cycle.pc = "loop"
  /\ th["worker"].pc = "idle"
  /\ IF cycle.buy_signals = <<>> \/ LoopBreak(cycle.max_trades)
       THEN cycle' = Asleep("done")
       ELSE /\ \/ AlreadyOpen(Head(cycle.buy_signals).ticker)
               \/ Head(cycle.buy_signals).ticker \in cycle.cooldown_tickers
            /\ cycle' = [cycle EXCEPT !.buy_signals = Tail(@)]
  /\ UNCHANGED CycleVars
\* lines 386-414: open_trade is called for the next signal
CycleOpen ==
  /\ cycle.pc = "loop"
  /\ cycle.buy_signals # <<>>
  /\ ~LoopBreak(cycle.max_trades)
  /\ ~AlreadyOpen(Head(cycle.buy_signals).ticker)
  /\ Head(cycle.buy_signals).ticker \notin cycle.cooldown_tickers
  /\ LET sig == Head(cycle.buy_signals)
     IN  Call("worker",
              [IdleLocals EXCEPT !.pc = "o_check", !.op = "open",
                 !.ticker = sig.ticker, !.direction = "BUY",
                 !.price = sig.price, !.stop_loss = sig.stop_loss,
                 !.take_profit = sig.take_profit,
                 !.amount = auto_settings.trade_amount], FALSE)
  /\ cycle' = [cycle EXCEPT
                 !.pc = "call",
                 !.flag_at_call = auto_settings.auto_trade_enabled]
  /\ UNCHANGED <<auto_settings, price_task>>
\* lines 416-419: open_trade has returned
CycleOpened ==
  /\ cycle.pc = "call"
  /\ th["worker"].pc = "done"
  /\ cycle' = [cycle EXCEPT
                 !.pc = "loop",
                 !.buy_signals = Tail(@),
                 !.opened = IF th["worker"].result # 0 THEN @ + 1 ELSE @]
  /\ th' = [th EXCEPT !["worker"] = IdleLocals]
  /\ heap' = Collect(heap, trades, open_trades, th')
  /\ UNCHANGED <<Scan, initial_capital, current_capital, trades, open_trades,
                 Files, lock, now, calls, applied, auto_settings, price_task>>
\* app.py update_settings, lines 256-265, for a body with one key
LimitBodies ==
  {[key |-> "auto_trade_enabled", value |-> TRUE],
   [key |-> "auto_trade_enabled", value |-> FALSE],
   [key |-> "max_open_trades", value |-> 1],
   [key |-> "max_open_trades", value |-> 100]}
OptionBodies ==
  {[key |-> "min_confidence", value |-> 60],
   [key |-> "min_confidence", value |-> 65],
   [key |-> "trade_amount", value |-> 500],
   [key |-> "trade_amount", value |-> 1000]}
UpdateSettings(bodies) ==
  /\ \E data \in bodies :
       auto_settings' =
         IF data.key = "auto_trade_enabled"
           THEN [auto_settings EXCEPT !.auto_trade_enabled = data.value]
           ELSE IF data.key = "max_open_trades"
             THEN [auto_settings EXCEPT !.max_open_trades = data.value]
           ELSE IF data.key = "min_confidence"
             THEN [auto_settings EXCEPT !.min_confidence = data.value]
           ELSE [auto_settings EXCEPT !.trade_amount = EGP(data.value)]
  /\ UNCHANGED <<Scan, Ledger, Files, lock, now, th, calls, applied, cycle,
                 price_task>>
\* The steps of the call of open_trade the cycle has made.
CycleCall ==
  \/ OpenCheck("worker") \/ OpenCapital("worker") \/ OpenCreate("worker")
  \/ OpenDebitLoad("worker") \/ OpenDebitStore("worker")
  \/ OpenAppend("worker") \/ OpenIndex("worker")
  \/ SaveLock("worker") \/ SavePortfolio("worker") \/ SaveTrades("worker")
CycleSteps ==
  \/ CycleFlag \/ CycleMarket \/ CycleCount \/ CycleScan
  \/ CycleLoop \/ CycleOpen \/ CycleOpened
  \/ CycleCall
\* The rescan task while the enable flag and the limit are being changed.
CycleNext == CycleSteps \/ UpdateSettings(LimitBodies)
CycleSpec == Init /\ [][CycleNext]_vars
\* app.py worker_update_prices, line 302: the PriceUpdater, on its own
\* thread, hands a provider price to update_trade_price
UpdaterPrices == {EGP(9), 10500}
UpdaterUpdate ==
  /\ \E k \in OpenTickers, p \in UpdaterPrices :
       Call("updater", [IdleLocals EXCEPT !.pc = "u_check", !.op = "update",
                          !.ticker = k, !.price = p], FALSE)
  /\ UNCHANGED Auto
UpdateSteps(t) ==
  \/ UpdateCheck(t) \/ UpdateGet(t) \/ UpdateSetPrice(t) \/ UpdateSetPnl(t)
  \/ UpdateExit(t)
CloseSteps(t) ==
  \/ CloseCheck(t) \/ CloseGet(t) \/ CloseSetExit(t) \/ CloseSetPnl(t)
  \/ CloseSetStatus(t) \/ CloseCreditLoad(t) \/ CloseCreditStore(t)
  \/ CloseDel(t)
ResetSteps(t) ==
  \/ ResetInitial(t) \/ ResetCurrent(t) \/ ResetTrades(t) \/ ResetOpen(t)
  \/ ResetRemove(t)
SaveSteps(t) == SaveLock(t) \/ SavePortfolio(t) \/ SaveTrades(t)
OpenSteps(t) ==
  \/ OpenCheck(t) \/ OpenCapital(t) \/ OpenCreate(t) \/ OpenDebitLoad(t)
  \/ OpenDebitStore(t) \/ OpenAppend(t) \/ OpenIndex(t)
\* paper_trading.py get_open_trades, line 244, for GET /api/trades/open:
\* the positions of the index, each copied in one piece
GetOpenTrades ==
  /\ Call("request", [IdleLocals EXCEPT !.pc = "done", !.op = "read",
                                        !.view = OpenView], FALSE)
  /\ UNCHANGED Auto
\* The display reads while the background threads open and update.
DisplayNext ==
  \/ WorkerOpen("worker", FALSE) \/ OpenSteps("worker")
  \/ SaveSteps("worker") \/ Return("worker")
  \/ UpdaterUpdate \/ UpdateSteps("updater") \/ CloseSteps("updater")
  \/ SaveSteps("updater") \/ Return("updater")
  \/ GetOpenTrades \/ Return("request")
DisplaySpec == Init /\ [][DisplayNext]_vars
\* Fault variant: an exception leaves the loop of the task.
ExceptionEndsTask(task) == [task EXCEPT !.pc = "ended", !.last = "failed"]
\* app.py lines 316-317 and 430-433: the exception is caught and logged
\* inside the loop, and the task sleeps until its next cycle
AfterException(task) == [task EXCEPT !.pc = "sleep", !.last = "failed"]
\* line 291 returns: a cycle of the price-update task starts
PricesWake ==
  /\ price_task.pc = "sleep"
  /\ price_task' = [price_task EXCEPT !.pc = "list"]
  /\ UNCHANGED <<Scan, Ledger, Files, lock, now, th, calls, applied,
                 auto_settings, cycle>>
\* lines 293-295
PricesList ==
  /\ price_task.pc = "list"
  /\ price_task' = IF OpenTickers = {}
                     THEN [StartPrices EXCEPT !.last = "empty"]
                     ELSE [price_task EXCEPT !.pc = "for",
                                             !.todo = OpenTickers]
  /\ UNCHANGED <<Scan, Ledger, Files, lock, now, th, calls, applied,
                 auto_settings, cycle>>
\* lines 299-300: the provider has no price for the ticker
PricesSkip ==
  /\ price_task.pc = "for"
  /\ \E k \in price_task.todo :
       price_task' = [price_task EXCEPT !.todo = @ \ {k}]
  /\ UNCHANGED <<Scan, Ledger, Files, lock, now, th, calls, applied,
                 auto_settings, cycle>>
\* what the provider returns under 'current_price'; None is malformed
TaskPrices == {None, EGP(9)}
\* line 301: update_trade_price(ticker, price_info['current_price'])
PricesUpdate ==
  /\ price_task.pc = "for"
  /\ \E k \in price_task.todo, p \in TaskPrices :
       /\ Call("updater", [IdleLocals EXCEPT !.pc = "u_check",
                             !.op = "update", !.ticker = k, !.price = p],
               FALSE)
       /\ price_task' = [price_task EXCEPT !.pc = "call", !.todo = @ \ {k}]
  /\ UNCHANGED <<auto_settings, cycle>>
\* lines 302-310, or 316-317 when update_trade_price has raised
PricesResult ==
  /\ price_task.pc = "call"
  /\ th["updater"].pc = "done"
  /\ price_task' = IF th["updater"].raised
                     THEN AfterException(StartPrices)
                     ELSE [price_task EXCEPT !.pc = "for"]
  /\ th' = [th EXCEPT !["updater"] = IdleLocals]
  /\ heap' = Collect(heap, trades, open_trades, th')
  /\ UNCHANGED <<Scan, initial_capital, current_capital, trades, open_trades,
                 Files, lock, now, calls, applied, auto_settings, cycle>>
\* lines 312-314: the loop over the tickers is over
PricesDone ==
  /\ price_task.pc = "for"
  /\ price_task.todo = {}
  /\ price_task' = [StartPrices EXCEPT !.last = "ok"]
  /\ UNCHANGED <<Scan, Ledger, Files, lock, now, th, calls, applied,
                 auto_settings, cycle>>
PricesTask ==
  \/ PricesWake \/ PricesList \/ PricesSkip \/ PricesUpdate \/ PricesResult
  \/ PricesDone
  \/ UpdateSteps("updater") \/ CloseSteps("updater") \/ SaveSteps("updater")
\* app.py lines 349-383 raise (a provider error, a malformed frame): the
\* handler of line 430 logs it and line 433 sleeps
CycleFail ==
  /\ cycle.pc = "scan"
  /\ cycle' = AfterException(StartCycle)
  /\ UNCHANGED CycleVars
\* The two periodic tasks run side by side.
TaskNext ==
  \/ CycleSteps \/ CycleFail \/ PricesTask
\* Both tasks are daemon threads of the process: a sleep of time.sleep
\* returns, and the statement after it is executed.
TaskSpec ==
  /\ Init /\ [][TaskNext]_vars
  /\ WF_vars(CycleFlag) /\ WF_vars(PricesWake)
\* Hours go by.
Clock == {0, 24}
Tick ==
  /\ \E t \in Clock : t > now /\ now' = t
  /\ UNCHANGED <<Scan, Auto, Ledger, Files, lock, th, calls, applied>>
\* The rescan task while the reset request is handled.
ResetNext ==
  \/ CycleSteps
  \/ RequestReset("request", FALSE) \/ ResetSteps("request")
  \/ SaveSteps("request") \/ Return("request")
ResetSpec == Init /\ [][ResetNext]_vars
\* The rescan task and the price-update task, over a day.
CooldownNext ==
  \/ CycleSteps
  \/ UpdaterUpdate \/ UpdateSteps("updater") \/ CloseSteps("updater")
  \/ SaveSteps("updater") \/ Return("updater")
  \/ Tick
CooldownSpec == Init /\ [][CooldownNext]_vars
\* The rescan task while the threshold and the amount are being changed.
OptionsNext == CycleSteps \/ UpdateSettings(OptionBodies)
OptionsSpec == Init /\ [][OptionsNext]_vars

\* ================================================================ claims
Quiet == \A t \in Threads : ~Running(t)
\* Thread t has finished a call of `op` that ran alone and no other call
\* is in progress or waiting to return; th[t].pre is the ledger the call
\* found and th[t].result what it returns (0 = None).
Done(t, op) ==
  /\ th[t].pc = "done" /\ th[t].op = op /\ th[t].solo
  /\ \A u \in Threads \ {t} : th[u].pc = "idle"
Abs(x) == IF x < 0 THEN -x ELSE x
IsClosed(r) == r.status \in {"CLOSED_PROFIT", "CLOSED_LOSS", "CLOSED_MANUAL"}

\* C1, as stated: whenever no call is running, current_capital plus the
\* investment_amount and unrealized pnl of the OPEN positions equals
\* initial_capital plus the realized pnl of the closed positions.
C1_ConservationAsStated ==
  Quiet => total_equity = initial_capital + total_realized_pnl

\* C1, amended: whenever no call is running, current_capital plus the
\* investment_amount of the OPEN positions (without their unrealized pnl)
\* equals initial_capital plus the realized pnl of the closed positions, to
\* within half a cent per position of the history (investment_amount is
\* rounded to the cent, the debit is not).
CapitalDrift ==
  current_capital + SumInvested(OpenTickers)
    - (initial_capital + total_realized_pnl)
C1_Conservation == Quiet => Abs(CapitalDrift) <= 5 * Len(trades)

\* C1 witness: a quiet ledger holding a position closed at a profit or loss,
\* whose balance is off by the rounding of an investment_amount.
C1_Witness ==
  /\ Quiet
  /\ \E i \in 1..Len(trades) : IsClosed(History[i]) /\ History[i].pnl # 0
  /\ CapitalDrift # 0

\* C2: no two positions of the trade history with status OPEN share an
\* instrument, in any state the interleaved calls reach.
C2_OneOpenPerInstrument ==
  \A i, j \in 1..Len(trades) :
    (i < j /\ History[i].status = "OPEN" /\ History[j].status = "OPEN")
      => History[i].ticker # History[j].ticker

\* C3: no update of the capital is lost: once the interleaved calls have
\* finished, current_capital is what the debits, credits and resets give
\* when each is applied whole.
C3_NoLostUpdate == Quiet => current_capital = applied

\* C4: a record of the history whose status is no longer OPEN is never
\* changed again while it stays in the history.
C4_ClosedImmutable ==
  [][\A i \in Cells :
       (/\ IsClosed(heap[i])
        /\ \E n \in 1..Len(trades) : trades[n] = i
        /\ \E n \in 1..Len(trades') : trades'[n] = i)
       => heap'[i] = heap[i]]_vars

\* C5: an open_trade call that finds an OPEN position of its instrument
\* returns None and leaves capital, history, index and files as they were.
C5_DuplicateOpenFails ==
  \A t \in Threads :
    (Done(t, "open") /\ th[t].pre.open[th[t].ticker].status = "OPEN")
      => (th[t].result = 0 /\ ~th[t].raised /\ Snapshot = th[t].pre)

\* C5 witness: such a call has returned.
C5_Witness ==
  \E t \in Threads :
    Done(t, "open") /\ th[t].pre.open[th[t].ticker].status = "OPEN"

\* C6: an open_trade call whose requested investment_amount exceeds the
\* current_capital it finds returns None and leaves the ledger as it was.
C6_InsufficientCapitalFails ==
  \A t \in Threads :
    (Done(t, "open") /\ th[t].amount > th[t].pre.capital)
      => (th[t].result = 0 /\ ~th[t].raised /\ Snapshot = th[t].pre)

\* C6 witness: the call found no OPEN position of its instrument, asked for
\* more than the capital, and the floored amount would have fitted.
C6_Witness ==
  \E t \in Threads :
    /\ Done(t, "open")
    /\ th[t].pre.open[th[t].ticker].status # "OPEN"
    /\ th[t].amount > th[t].pre.capital
    /\ IntDiv(th[t].amount, th[t].price) * th[t].price <= th[t].pre.capital
    /\ IntDiv(th[t].amount, th[t].price) >= 1

\* C7: an open_trade call with floor(investment_amount / entry_price) < 1
\* returns None and leaves the ledger as it was, whatever amount is passed.
C7_ZeroQuantityFails ==
  \A t \in Threads :
    (Done(t, "open") /\ IntDiv(th[t].amount, th[t].price) < 1)
      => (th[t].result = 0 /\ ~th[t].raised /\ Snapshot = th[t].pre)

\* C8: a successful open_trade returns an OPEN position with
\* quantity = floor(investment / entry_price) and investment_amount =
\* quantity * entry_price, has debited exactly that amount, appended the
\* position to the history and indexed it under its instrument.
C8_OpenCommitsRecordedAmount ==
  \A t \in Threads :
    (Done(t, "open") /\ th[t].result # 0)
      => LET tr == heap[th[t].result] IN
         /\ tr.status = "OPEN"
         /\ tr.quantity = IntDiv(Investment(th[t].amount), th[t].price)
         /\ tr.investment_amount = tr.quantity * th[t].price
         /\ current_capital = th[t].pre.capital - tr.investment_amount
         /\ History = Append(th[t].pre.history, tr)
         /\ OpenView = [th[t].pre.open EXCEPT ![th[t].ticker] = tr]

\* C9: the ids of the trade history are strictly increasing (so unique), in
\* any state the interleaved calls reach.
C9_IdsIncreasing ==
  \A i, j \in 1..Len(trades) : i < j => History[i].id < History[j].id

\* C10, as stated: update_trade_price on a LONG position closes it with
\* reason STOP_LOSS when price <= stop_loss and with reason TAKE_PROFIT when
\* price >= take_profit, mirrored for SHORT, and leaves it OPEN otherwise;
\* a closed position is returned closed, is out of the index, and its
\* investment_amount and pnl are credited.
StopHit(tr, p) ==
  IF tr.direction = "BUY" THEN p <= tr.stop_loss ELSE p >= tr.stop_loss
TargetHit(tr, p) ==
  IF tr.direction = "BUY" THEN p >= tr.take_profit ELSE p <= tr.take_profit
ClosedBy(t, why) ==
  /\ th[t].reason = why
  /\ th[t].result # 0
  /\ IsClosed(heap[th[t].result])
  /\ open_trades[th[t].ticker] = 0
  /\ current_capital = th[t].pre.capital
       + th[t].pre.open[th[t].ticker].investment_amount
       + heap[th[t].result].pnl
StaysOpen(t) ==
  /\ th[t].reason = "none"
  /\ th[t].result # 0
  /\ heap[th[t].result].status = "OPEN"
  /\ open_trades[th[t].ticker] = th[t].result
  /\ current_capital = th[t].pre.capital
C10_ExitAsStated ==
  \A t \in Threads :
    (Done(t, "update") /\ th[t].pre.open[th[t].ticker].status = "OPEN")
      => LET tr == th[t].pre.open[th[t].ticker]
             p == th[t].price
         IN  /\ StopHit(tr, p) => ClosedBy(t, "STOP_LOSS")
             /\ TargetHit(tr, p) => ClosedBy(t, "TAKE_PROFIT")
             /\ (~StopHit(tr, p) /\ ~TargetHit(tr, p)) => StaysOpen(t)

\* C10, amended: the stop-loss test comes first: the position is closed
\* with reason TAKE_PROFIT when the take-profit test holds and the
\* stop-loss test does not.
C10_ExitEvaluation ==
  \A t \in Threads :
    (Done(t, "update") /\ th[t].pre.open[th[t].ticker].status = "OPEN")
      => LET tr == th[t].pre.open[th[t].ticker]
             p == th[t].price
         IN  /\ StopHit(tr, p) => ClosedBy(t, "STOP_LOSS")
             /\ (TargetHit(tr, p) /\ ~StopHit(tr, p))
                  => ClosedBy(t, "TAKE_PROFIT")
             /\ (~StopHit(tr, p) /\ ~TargetHit(tr, p)) => StaysOpen(t)

\* C10 witness: a SHORT position closed by its take-profit.
C10_Witness ==
  \E t \in Threads :
    /\ Done(t, "update")
    /\ th[t].pre.open[th[t].ticker].status = "OPEN"
    /\ th[t].pre.open[th[t].ticker].direction = "SELL"
    /\ ClosedBy(t, "TAKE_PROFIT")

\* C11: every close gives the status of the stated policy: reason STOP_LOSS
\* gives CLOSED_LOSS, reason TAKE_PROFIT gives CLOSED_PROFIT whatever the
\* sign of pnl, any other reason gives CLOSED_PROFIT, CLOSED_LOSS or
\* CLOSED_MANUAL as pnl is positive, negative or zero.
StatedStatus(reason, pnl) ==
  IF reason = "STOP_LOSS" THEN "CLOSED_LOSS"
  ELSE IF reason = "TAKE_PROFIT" THEN "CLOSED_PROFIT"
  ELSE IF pnl > 0 THEN "CLOSED_PROFIT"
  ELSE IF pnl < 0 THEN "CLOSED_LOSS"
  ELSE "CLOSED_MANUAL"
HasClosed(t) ==
  /\ Done(t, "close") \/ Done(t, "update")
  /\ th[t].pre.open[th[t].ticker].status = "OPEN"
  /\ th[t].result # 0
  /\ IsClosed(heap[th[t].result])
C11_StatusPolicy ==
  \A t \in Threads :
    HasClosed(t)
      => heap[th[t].result].status
           = StatedStatus(th[t].reason, heap[th[t].result].pnl)

\* C12, as stated: a successful close sets pnl to (exit_price - entry) * qty
\* (LONG) or (entry - exit_price) * qty (SHORT), credits the capital by
\* investment_amount plus that pnl, removes the instrument from the index
\* and keeps the closed record at its place in the history.
RawPnl(direction, price, entry_price, quantity) ==
  IF direction = "BUY" THEN (price - entry_price) * quantity
                       ELSE (entry_price - price) * quantity
ClosedWith(t, pnl) ==
  LET o == th[t].pre.open[th[t].ticker]
      tr == heap[th[t].result]
  IN  /\ tr.pnl = pnl
      /\ current_capital = th[t].pre.capital + o.investment_amount + tr.pnl
      /\ open_trades[th[t].ticker] = 0
      /\ Len(trades) = Len(th[t].pre.history)
      /\ \E i \in 1..Len(trades) :
           /\ trades[i] = th[t].result
           /\ th[t].pre.history[i] = o
           /\ \A j \in 1..Len(trades) :
                j # i => History[j] = th[t].pre.history[j]
C12_CloseAsStated ==
  \A t \in Threads :
    HasClosed(t)
      => LET o == th[t].pre.open[th[t].ticker] IN
         ClosedWith(t, RawPnl(o.direction, th[t].price, o.entry_price,
                              o.quantity))

\* C12, amended: the pnl a close records is that product rounded to the
\* cent, entry being the recorded entry price; the rest as stated.
C12_Close ==
  \A t \in Threads :
    HasClosed(t)
      => LET o == th[t].pre.open[th[t].ticker] IN
         ClosedWith(t, Round2(RawPnl(o.direction, th[t].price, o.entry_price,
                                     o.quantity)))

\* C12 witness: a SHORT position closed at a price whose product with the
\* quantity is not a whole number of cents.
C12_Witness ==
  \E t \in Threads :
    /\ HasClosed(t)
    /\ LET o == th[t].pre.open[th[t].ticker]
           raw == RawPnl(o.direction, th[t].price, o.entry_price, o.quantity)
       IN  o.direction = "SELL" /\ Round2(raw) # raw

\* C13: close_trade and update_trade_price on an instrument without an OPEN
\* position return None and leave capital, history, index and files as
\* they were; so does a second close after a successful one.
C13_NoOpenPositionNoOp ==
  \A t \in Threads :
    (/\ Done(t, "close") \/ Done(t, "update")
     /\ th[t].pre.open[th[t].ticker].status # "OPEN")
      => (th[t].result = 0 /\ ~th[t].raised /\ Snapshot = th[t].pre)

\* C13 witness: a close of an instrument whose position an earlier call
\* has closed.
C13_Witness ==
  \E t \in Threads :
    /\ Done(t, "close")
    /\ th[t].pre.open[th[t].ticker].status # "OPEN"
    /\ \E i \in 1..Len(th[t].pre.history) :
         /\ th[t].pre.history[i].ticker = th[t].ticker
         /\ IsClosed(th[t].pre.history[i])

\* C14: after an update_trade_price that leaves the position OPEN, its
\* current_price is the new price and its pnl is (price - entry) * qty
\* (LONG) or (entry - price) * qty (SHORT); current_capital, the length of
\* the history and the index are unchanged.
LeftOpen(t) ==
  /\ Done(t, "update")
  /\ th[t].pre.open[th[t].ticker].status = "OPEN"
  /\ th[t].result # 0
  /\ heap[th[t].result].status = "OPEN"
C14_UpdateKeepsOpen ==
  \A t \in Threads :
    LeftOpen(t)
      => LET o == th[t].pre.open[th[t].ticker]
             tr == heap[th[t].result]
         IN  /\ tr.current_price = th[t].price
             /\ tr.pnl = RawPnl(o.direction, th[t].price, o.entry_price,
                                o.quantity)
             /\ current_capital = th[t].pre.capital
             /\ Len(trades) = Len(th[t].pre.history)
             /\ open_trades[th[t].ticker] = th[t].result
             /\ \A k \in Tickers \ {th[t].ticker} :
                  OpenView[k] = th[t].pre.open[k]

\* C14 witness: a SHORT position left OPEN with a non-zero pnl at a price
\* other than its entry price.
C14_Witness ==
  \E t \in Threads :
    /\ LeftOpen(t)
    /\ th[t].pre.open[th[t].ticker].direction = "SELL"
    /\ heap[th[t].result].pnl # 0
    /\ th[t].pre.open[th[t].ticker].current_price # th[t].price

\* C15: after reset_portfolio(c) the index is empty, the history is empty
\* and current_capital = initial_capital = c, whatever came before.
C15_Reset ==
  \A t \in Threads :
    Done(t, "reset")
      => /\ \A k \in Tickers : open_trades[k] = 0
         /\ trades = <<>>
         /\ current_capital = th[t].amount
         /\ initial_capital = th[t].amount

\* C15 witness: a reset to another capital of a ledger whose history held
\* a position opened and closed at a profit or loss.
C15_Witness ==
  \E t \in Threads :
    /\ Done(t, "reset")
    /\ th[t].amount # th[t].pre.initial
    /\ th[t].pre.capital # th[t].pre.initial
    /\ \E i \in 1..Len(th[t].pre.history) : IsClosed(th[t].pre.history[i])

\* ---------------------------------------------------------------- C16
Scored == scan_pc = "signal"
Max(a, b) == IF a >= b THEN a ELSE b
Total == signal.buy_score + signal.sell_score
Lead == Max(signal.buy_score, signal.sell_score)
StatedType(buy, sell) ==
  IF buy + sell = 0 \/ 100 * Max(buy, sell) < 55 * (buy + sell) THEN "HOLD"
  ELSE IF 100 * Max(buy, sell) >= 75 * (buy + sell)
    THEN IF buy > sell THEN "STRONG_BUY" ELSE "STRONG_SELL"
    ELSE IF buy > sell THEN "BUY" ELSE "SELL"
\* C16: a scored frame has the direction that follows from its two scores:
\* the larger score leads, confidence = 100 * leading score / total, STRONG
\* from 75, plain from 55, HOLD below; the confidence of the signal is that
\* value to one decimal; a total of 0 gives confidence 50 and HOLD.
C16_DirectionAndConfidence ==
  /\ signal_type(0, 0) = "HOLD"
  /\ Confidence(0, 0).num = 50 * Confidence(0, 0).den
  /\ Scored =>
       /\ Total > 0
       /\ signal.signal_type = StatedType(signal.buy_score, signal.sell_score)
       /\ 2 * Abs(signal.confidence * Total - 1000 * Lead) <= Total
       /\ LET conf == Confidence(signal.buy_score, signal.sell_score)
          IN  conf.num * Total = 100 * Lead * conf.den
\* A buy side that leads with exactly 75 percent, and an even split.
C16_Witness ==
  /\ Scored
  /\ signal.buy_score = 3 * signal.sell_score
  /\ signal.signal_type = "STRONG_BUY"
  /\ signal.confidence = 750
C16_WitnessTie ==
  /\ Scored
  /\ signal.buy_score = signal.sell_score
  /\ signal.signal_type = "HOLD"


\* ---------------------------------------------------------------- C17
Spike == Scored /\ indicators.is_volume_spike
BonusTo(side) ==
  /\ signal.buy_score
       = BuyBeforeVolume(indicators) + (IF side = "buy" THEN 15 ELSE 0)
  /\ signal.sell_score
       = SellBeforeVolume(indicators) + (IF side = "sell" THEN 15 ELSE 0)
\* C17 as stated: on a volume spike 15 points go to the larger of the two
\* scores, and to buy_score when they are equal.
C17_BonusAsStated ==
  Spike =>
    IF BuyBeforeVolume(indicators) >= SellBeforeVolume(indicators)
      THEN BonusTo("buy") ELSE BonusTo("sell")
\* C17: on a volume spike 15 points go to buy_score when it is strictly the
\* larger and to sell_score otherwise, equal scores included; without a
\* spike neither score gets the bonus.
C17_Bonus ==
  /\ Spike =>
       IF BuyBeforeVolume(indicators) > SellBeforeVolume(indicators)
         THEN BonusTo("buy") ELSE BonusTo("sell")
  /\ Scored /\ ~indicators.is_volume_spike => BonusTo("neither")
\* A spike on equal scores.
C17_Witness ==
  /\ Spike
  /\ BuyBeforeVolume(indicators) = SellBeforeVolume(indicators)
  /\ signal.sell_score = signal.buy_score + 15


\* ---------------------------------------------------------------- C18
Weight(condition, points) == IF condition THEN points ELSE 0
Oversold == indicators.rsi < 3000
Overbought == indicators.rsi > 7000
Bullish == indicators.macd_trend = "up"
TrendsUp == indicators.sma_trend = "up" /\ indicators.ema_trend = "up"
TrendsDown == indicators.sma_trend = "down" /\ indicators.ema_trend = "down"
AboveBoth == indicators.price_above_sma20 /\ indicators.price_above_sma50
AboveNeither == ~indicators.price_above_sma20 /\ ~indicators.price_above_sma50
TableBuy ==
  Weight(Oversold, 20)
    + Weight(~Oversold /\ ~Overbought /\ indicators.rsi < 4500, 10)
    + Weight(Bullish, 15) + Weight(Bullish /\ indicators.histogram > 0, 10)
    + Weight(indicators.bb_position = "below", 15)
    + Weight(TrendsUp, 15)
    + Weight(AboveBoth, 10)
TableSell ==
  Weight(Overbought, 20)
    + Weight(~Oversold /\ ~Overbought /\ indicators.rsi > 5500, 10)
    + Weight(~Bullish, 15) + Weight(~Bullish /\ indicators.histogram < 0, 10)
    + Weight(indicators.bb_position = "above", 15)
    + Weight(TrendsDown, 15)
    + Weight(AboveNeither, 10)
BullishScenario ==
  /\ Scored
  /\ Oversold
  /\ Bullish /\ indicators.histogram > 0
  /\ indicators.bb_position = "below"
  /\ TrendsUp
  /\ indicators.is_volume_spike
  /\ ~AboveBoth /\ ~AboveNeither
\* C18: the two scores of a scored frame are the sums of the weights of the
\* table's rows that apply, plus the volume bonus of 15 on a spike; in the
\* scenario (RSI oversold, MACD above its signal with a positive histogram,
\* price below the lower band, both trends up, a volume spike, no sell row and
\* no row for the averages) that is 90 against 0, confidence 100, STRONG_BUY.
C18_AdditiveTable ==
  /\ Scored =>
       /\ signal.buy_score
            = TableBuy + Weight(Spike /\ TableBuy > TableSell, 15)
       /\ signal.sell_score
            = TableSell + Weight(Spike /\ ~(TableBuy > TableSell), 15)
  /\ BullishScenario =>
       /\ signal.buy_score = 90
       /\ signal.sell_score = 0
       /\ signal.confidence = 1000
       /\ signal.signal_type = "STRONG_BUY"
C18_Witness == BullishScenario /\ signal.buy_score = 90


\* ---------------------------------------------------------------- C19
BuyClass == signal.signal_type \in {"BUY", "STRONG_BUY"}
SellClass == signal.signal_type \in {"SELL", "STRONG_SELL"}
\* C19: a BUY, STRONG_BUY or HOLD signal has its stop below and its target
\* above the reference price; a SELL or STRONG_SELL signal has its target
\* below and its stop above.
C19_StopsAndTargets ==
  Scored =>
    /\ signal.signal_type \in SignalTypes
    /\ ~SellClass =>
         signal.stop_loss < signal.price /\ signal.price < signal.take_profit
    /\ SellClass =>
         signal.take_profit < signal.price /\ signal.price < signal.stop_loss
\* What holds at every price: the order without strictness, and the strict
\* order from a reference price of 0.11.
C19_OrderUpToRounding ==
  Scored =>
    /\ ~SellClass =>
         signal.stop_loss <= signal.price /\ signal.price <= signal.take_profit
    /\ SellClass =>
         signal.take_profit <= signal.price /\ signal.price <= signal.stop_loss
    /\ signal.price >= 110 =>
         /\ signal.stop_loss # signal.price
         /\ signal.take_profit # signal.price


\* ---------------------------------------------------------------- C20
InProgress == cycle.pc \in {"market", "count", "scan", "loop", "call"}
CycleCallStarts == th["worker"].pc = "idle" /\ th'["worker"].pc = "o_check"
\* C20: the enable flag is consulted only when a cycle starts.  A cycle
\* that starts with the flag off goes back to sleep with nothing scanned;
\* open_trade is called only in a cycle whose start read the flag on; a
\* change of the settings leaves a cycle in progress as it is; and a cycle
\* in progress ends only because the market is closed, the limit of open
\* positions is reached or its signals are used up, whatever the flag.
C20_FlagAtCycleStart ==
  [][/\ cycle.pc = "sleep" /\ ~auto_settings.auto_trade_enabled
          /\ cycle' # cycle
          => cycle' = Asleep("disabled") /\ UNCHANGED <<Ledger, th>>
     /\ CycleCallStarts => InProgress /\ cycle.enabled
     /\ InProgress /\ auto_settings' # auto_settings => cycle' = cycle
     /\ InProgress /\ cycle'.pc = "sleep"
          => /\ cycle'.last \in {"closed", "max", "done"}
             /\ cycle'.last = "closed" => cycle.pc = "market"
             /\ cycle'.last = "max"
                  => Cardinality(OpenTickers) >= auto_settings.max_open_trades
             /\ cycle'.last = "done"
                  => \/ cycle.buy_signals = <<>>
                     \/ Cardinality(OpenTickers) >= cycle.max_trades
    ]_vars
\* A position opened by a call that the cycle made after auto-trading had
\* been switched off.
C20_Witness ==
  /\ cycle.pc = "call"
  /\ cycle.enabled
  /\ ~cycle.flag_at_call
  /\ ~auto_settings.auto_trade_enabled
  /\ th["worker"].pc = "done"
  /\ th["worker"].result # 0
  /\ open_trades[th["worker"].ticker] # 0


\* ---------------------------------------------------------------- C28
\* C28: the MACD rows give 15 points or more to exactly one side of every
\* indicator snapshot, so the total of a scored frame is at least 15, never
\* 0, and the confidence of its signal lies between 50 and 100.
C28_TotalAndConfidenceRange ==
  Scored =>
    /\ (MacdBuy(indicators) >= 15) # (MacdSell(indicators) >= 15)
    /\ MacdBuy(indicators) = 0 \/ MacdSell(indicators) = 0
    /\ Total >= 15
    /\ signal.confidence >= 500 /\ signal.confidence <= 1000
    /\ LET conf == Confidence(signal.buy_score, signal.sell_score)
       IN  50 * conf.den <= conf.num /\ conf.num <= 100 * conf.den
\* The smallest total: the MACD row alone.
C28_Witness ==
  /\ Scored
  /\ Total = 15
  /\ signal.confidence = 1000


\* ---------------------------------------------------------------- C25
Indexed(k) == open_trades[k] # 0
IndexAgrees ==
  /\ \A k \in Tickers :
       Indexed(k) =>
         /\ heap[open_trades[k]].status = "OPEN"
         /\ heap[open_trades[k]].ticker = k
         /\ \E i \in 1..Len(trades) : trades[i] = open_trades[k]
  /\ \A i \in 1..Len(trades) :
       heap[trades[i]].status = "OPEN" =>
         open_trades[heap[trades[i]].ticker] = trades[i]
\* C25: whenever no ledger operation is under way, the positions of the
\* OPEN index are exactly the records of the history with status OPEN, each
\* under its own ticker.
C25_IndexMatchesHistory == Quiet => IndexAgrees


\* ---------------------------------------------------------------- C26
\* C26: current_capital is never negative.
C26_CapitalNonNegative == current_capital >= 0


\* ---------------------------------------------------------------- C27
Scanning == cycle.pc \in {"loop", "call"}
\* C27: the cycle calls open_trade only while the number of OPEN positions
\* is below the max_open_trades it read when it started, so that with no
\* other caller opening positions the number of OPEN positions in and after
\* the loop is at most the larger of that limit and the number at the start.
C27_MaxOpenTrades ==
  [][/\ CycleCallStarts => Cardinality(OpenTickers) < cycle.max_trades
     /\ Scanning' =>
          Cardinality(OpenTickers)'
            <= Max(cycle'.max_trades, cycle'.current_open)
    ]_vars
\* The loop is left with a signal to spare because the position it has just
\* opened reached the limit.
C27_Witness ==
  /\ cycle.pc = "loop"
  /\ cycle.buy_signals # <<>>
  /\ ~AlreadyOpen(Head(cycle.buy_signals).ticker)
  /\ cycle.opened = 1
  /\ Cardinality(OpenTickers) = cycle.max_trades


\* ---------------------------------------------------------------- C22
\* C22: a position opened by a cycle has the trade_amount of the settings
\* as they were when the cycle started, whatever update arrived since.
C22_AmountOfCycleStart ==
  /\ cycle.pc = "call"
  /\ th["worker"].pc = "done"
  /\ th["worker"].result # 0
  => heap[th["worker"].result].investment_amount = cycle.amount_at_start


\* ---------------------------------------------------------------- C30
ResetHandled == th["request"].pc = "done" /\ th["request"].op = "reset"
\* C30: once the reset request has been handled, and for as long as
\* auto_trade_enabled stays off, the rescan task makes no call of
\* open_trade.
C30_NoOpenAfterReset ==
  [][ResetHandled /\ ~auto_settings.auto_trade_enabled => ~CycleCallStarts
    ]_vars


\* ---------------------------------------------------------------- C29
RecentlyClosed(k, at) ==
  \E i \in 1..Len(History) :
    /\ History[i].ticker = k
    /\ History[i].status # "OPEN"
    /\ History[i].exit_time # None
    /\ at - History[i].exit_time < cooldown_hours
\* C29: the rescan task calls open_trade for no instrument that has a
\* closed position whose exit time lies less than 24 hours before the
\* moment the cycle built its cooldown set, or after it.
C29_Cooldown ==
  [][CycleCallStarts
       => ~RecentlyClosed(Head(cycle.buy_signals).ticker, cycle.now)
    ]_vars
\* What holds: an instrument found closed for less than 24 hours when the
\* cooldown set was built is passed over by that cycle.
C29_CooldownOfClosedBefore ==
  [][CycleCallStarts
       => Head(cycle.buy_signals).ticker \notin cycle.cooldown_tickers
    ]_vars


\* ---------------------------------------------------------------- C23
\* A position in one piece: its pnl fields belong to its current price,
\* and its exit fields are set exactly when it is closed.
Whole(r) ==
  \/ r.status = "NULL"
  \/ /\ r.status = "OPEN"
     /\ r.exit_price = None /\ r.exit_time = None
     /\ r.pnl = Pnl(r.direction, r.current_price, r.entry_price, r.quantity)
     /\ r.pnl_percent = PnlPercent(r.direction, r.current_price, r.entry_price)
  \/ /\ IsClosed(r)
     /\ r.exit_price # None /\ r.exit_time # None
     /\ r.current_price = r.exit_price
     /\ r.pnl = Pnl(r.direction, r.exit_price, r.entry_price, r.quantity)
\* C23: every position a display read returns is in one piece, whatever
\* update or close runs at the same time.
C23_NoHalfUpdatedRead ==
  th["request"].op = "read" => \A k \in Tickers : Whole(th["request"].view[k])


\* ---------------------------------------------------------------- C21
RescanRunning == cycle.pc \in {"market", "count", "scan", "loop", "call"}
PricesRunning == price_task.pc \in {"list", "for", "call"}
\* C21: after a cycle of either periodic task has failed, the task
\* eventually starts another cycle.
C21_TaskSurvivesFailure ==
  /\ (cycle.last = "failed" /\ ~RescanRunning)
       ~> (cycle.pc = "market" \/ cycle.last = "disabled")
  /\ (price_task.last = "failed" /\ ~PricesRunning)
       ~> (price_task.pc = "list")
\* Both tasks are in a cycle that started after a failed one.
C21_Witness ==
  /\ cycle.last = "failed" /\ cycle.pc = "market"
  /\ price_task.last = "failed" /\ price_task.pc = "for"


\* ---------------------------------------------------------------- C24
Restarted == th["request"].op = "restart" /\ th["request"].pc = "done"
\* C24: a restart between two calls rebuilds, from the two files, the
\* initial_capital, current_capital and trade history the ledger had, and
\* indexes exactly the positions of status OPEN by their instrument.
C24_RoundTrip ==
  Restarted =>
    /\ initial_capital = th["request"].pre.initial
    /\ current_capital = th["request"].pre.capital
    /\ History = th["request"].pre.history
    /\ OpenView = th["request"].pre.open
    /\ \A i \in 1..Len(trades) :
         heap[trades[i]].status = "OPEN"
           <=> open_trades[heap[trades[i]].ticker] = trades[i]
    /\ \A k \in Tickers :
         Indexed(k) => \E i \in 1..Len(trades) :
                         trades[i] = open_trades[k] /\ heap[trades[i]].ticker = k
\* A restart with one closed and one OPEN position on file and a capital
\* that differs from the initial capital.
C24_Witness ==
  /\ Restarted
  /\ Len(trades) = 2
  /\ \E i, j \in 1..2 : IsClosed(heap[trades[i]])
                        /\ heap[trades[j]].status = "OPEN"
  /\ current_capital # initial_capital

====
